---- MODULE Spec2Model ----
\* Model of dVsmall5pro.py: a batch driver that converts every video file of a
\* directory tree with ffmpeg, four files at a time, copying low-bitrate files
\* and compressing the others, with a per-file progress bar fed from ffmpeg's
\* stderr and one shared bar counting finished files.
EXTENDS Integers, Sequences, FiniteSets, TLC

VARIABLES
    fs,          \* the disk: [input |-> what a scan of input_dir meets,
                 \* output |-> whether output_dir exists or can be made]
    files,       \* process_videos' argument: the sequence of input paths
    output_file, \* per task: the output path its future was submitted with
    use_gpu,     \* process_videos' argument: check_gpu_support()'s answer
    mainPc,      \* where the main thread is: "start", "gpu", "walk" (before
                 \* those lines of the main block), "aborted" (an exception
                 \* left the main block), "running", "returned" (in and
                 \* after process_videos)
    futures,     \* number of futures appended so far (future k runs files[k])
    collected,   \* futures the as_completed loop has taken the result of
    errors,      \* futures whose exception the loop has printed
    pc,          \* per task: where copy_or_compress_video is: "new" (not
                 \* submitted), "queued", "bitrate" and "duration" (in that
                 \* probe), "loop", "update" (in pbar.update), "done", "raised"
    mode,        \* per task: "none", "copy" or "compress" (the branch taken)
    bitrate,     \* per task: get_video_bitrate's return value, -1 before it
    cmd,         \* per task: the encoder named on ffmpeg's command line
    process,     \* per task: the ffmpeg child: "none", "running" (started
                 \* by Popen), "exited" (waited for by communicate)
    returncode,  \* per task: the child's exit status, -1 until it is known
    error,       \* per task: the exception that ended the task, "none" if none
    n,           \* per task: progress.n, the elapsed time the open bar shows
                 \* (a float, as its limbs)
    line,        \* per task: the line the reading loop holds
    pbar_n,      \* pbar.n, the shared count of finished files
    reg          \* per task: the value of pbar.n read by pbar.update(1)

vars == <<fs, files, output_file, use_gpu, mainPc, futures, collected, errors, pc, mode,
          bitrate, cmd, process, returncode, error, n, line, pbar_n, reg>>

-----------------------------------------------------------------------------
\* Bounds of the model.

\* Directory entries the walked tree of a batch holds at most.
MaxEntries == 3
\* Files of the pool's batch beyond the size of the pool.
MaxQueued == 1

\* Program constants.
max_workers == 4
Threshold == 1000
\* Units of the decimal numbers read from text: a number with two fraction
\* digits is read in 1/Centi, so the times of the probes are in 1/Centi
\* seconds and bitrates, divided by Kilo, in 1/(Kilo * Centi) kbps. (The
\* elapsed time of a bar is kept as the float the code computes.)
Kilo == 1000
Centi == 100

-----------------------------------------------------------------------------
\* Strings are sequences of one-character strings, so that searching,
\* splitting and parsing are computed rather than assumed.

Digits == {"0", "1", "2", "3", "4", "5", "6", "7", "8", "9"}

DigitVal(c) ==
    CASE c = "0" -> 0 [] c = "1" -> 1 [] c = "2" -> 2 [] c = "3" -> 3
      [] c = "4" -> 4 [] c = "5" -> 5 [] c = "6" -> 6 [] c = "7" -> 7
      [] c = "8" -> 8 [] c = "9" -> 9

Min(a, b) == IF a <= b THEN a ELSE b

\* s[i..] starts with lit.
StartsWithAt(s, i, lit) ==
    /\ i >= 1
    /\ i + Len(lit) - 1 <= Len(s)
    /\ \A k \in 1..Len(lit) : s[i + k - 1] = lit[k]

\* lit in s
Contains(s, lit) == \E i \in 1..Len(s) : StartsWithAt(s, i, lit)

\* Length of the longest run of digits of s that starts at position i.
RECURSIVE DigitRun(_, _)
DigitRun(s, i) ==
    IF i <= Len(s) /\ s[i] \in Digits THEN 1 + DigitRun(s, i + 1) ELSE 0

\* int(s) for a string of digits ("" gives 0).
RECURSIVE DigitsValue(_)
DigitsValue(s) ==
    IF s = <<>> THEN 0
    ELSE 10 * DigitsValue(SubSeq(s, 1, Len(s) - 1)) + DigitVal(s[Len(s)])

\* s.split(sep) for a one-character sep.
RECURSIVE Split(_, _)
Split(s, sep) ==
    IF \A i \in 1..Len(s) : s[i] # sep THEN <<s>>
    ELSE LET i == CHOOSE j \in 1..Len(s) :
                      s[j] = sep /\ \A k \in 1..(j - 1) : s[k] # sep
         IN  <<SubSeq(s, 1, i - 1)>> \o Split(SubSeq(s, i + 1, Len(s)), sep)

ValueError == -1

\* float(s), in 1/Centi units, for the strings the model's alphabet can form:
\* digits, optionally a point and more digits. Anything else raises ValueError.
\* Fraction digits past the second are dropped by the fixed-point units.
Float(s) ==
    LET a == DigitRun(s, 1)
        hasPoint == a < Len(s) /\ s[a + 1] = "."
        b == IF hasPoint THEN DigitRun(s, a + 2) ELSE 0
        end == IF hasPoint THEN a + 1 + b ELSE a
        frac == SubSeq(s, a + 2, a + 1 + Min(b, 2))
    IN  IF end # Len(s) \/ a + b = 0 THEN ValueError
        ELSE DigitsValue(SubSeq(s, 1, a)) * Centi
             + (IF Len(frac) = 1 THEN 10 * DigitsValue(frac) ELSE DigitsValue(frac))

-----------------------------------------------------------------------------
\* Python's float is IEEE 754 binary64: a result is rounded to Precision
\* significant bits, to the nearest value and to the even one of two equally
\* near. The times of the model are 0 or at least 1/Centi and below 2^12
\* seconds, so every float of the model is a whole number of 2^-FracBits
\* below 2^72: it is kept as that number, in three limbs of LimbBits bits,
\* the lowest first. One second is HiUnit in the highest limb.
Precision == 53
FracBits == 60
LimbBits == 24
Limb == 2 ^ LimbBits
HiUnit == 2 ^ (FracBits - 2 * LimbBits)

Zero == <<0, 0, 0>>

\* 2^(k - 1 - FracBits): bit k alone.
Unit(k) ==
    [j \in 1..3 |-> IF j = ((k - 1) \div LimbBits) + 1
                    THEN 2 ^ ((k - 1) % LimbBits) ELSE 0]

\* Number of bits of v.
RECURSIVE BitLen(_)
BitLen(v) == IF v = 0 THEN 0 ELSE 1 + BitLen(v \div 2)

\* Position of the highest bit of a, 0 for Zero.
Msb(a) ==
    IF a[3] > 0 THEN 2 * LimbBits + BitLen(a[3])
    ELSE IF a[2] > 0 THEN LimbBits + BitLen(a[2])
    ELSE BitLen(a[1])

\* a < b
FLess(a, b) ==
    \/ a[3] < b[3]
    \/ a[3] = b[3] /\ a[2] < b[2]
    \/ a[3] = b[3] /\ a[2] = b[2] /\ a[1] < b[1]

\* The exact sum a + b, and the exact difference a - b of a >= b.
AddBits(a, b) ==
    LET s1 == a[1] + b[1]
        s2 == a[2] + b[2] + (s1 \div Limb)
        s3 == a[3] + b[3] + (s2 \div Limb)
    IN  <<s1 % Limb, s2 % Limb, s3>>

SubBits(a, b) ==
    LET d1 == a[1] - b[1]
        b1 == IF d1 < 0 THEN 1 ELSE 0
        d2 == a[2] - b[2] - b1
        b2 == IF d2 < 0 THEN 1 ELSE 0
    IN  <<d1 + b1 * Limb, d2 + b2 * Limb, a[3] - b[3] - b2>>

\* The float nearest to the exact value a (plus something below its lowest
\* bit when sticky): the bits below the Precision highest are dropped, and
\* the rest goes up by one in its last place when they are more than half of
\* it, or half of it and the rest is odd. (A number below 2^72 drops fewer
\* than LimbBits bits, all of the lowest limb.)
RoundBits(a, sticky) ==
    LET cut == Msb(a) - Precision
    IN  IF cut <= 0 THEN a
        ELSE LET low  == a[1] % (2 ^ cut)
                 half == 2 ^ (cut - 1)
                 odd  == (a[1] \div (2 ^ cut)) % 2 = 1
                 up   == low > half \/ (low = half /\ (sticky \/ odd))
                 kept == <<a[1] - low, a[2], a[3]>>
             IN  IF up THEN AddBits(kept, <<2 ^ cut, 0, 0>>) ELSE kept

\* float(s) of a decimal string with at most two fraction digits, given as
\* its value v in 1/Centi: the whole part, and the fraction by long division
\* limb by limb, rounded.
float64(v) ==
    LET r0 == v % Centi
        q3 == (r0 * HiUnit) \div Centi
        r1 == (r0 * HiUnit) % Centi
        q2 == (r1 * Limb) \div Centi
        r2 == (r1 * Limb) % Centi
        q1 == (r2 * Limb) \div Centi
        r3 == (r2 * Limb) % Centi
    IN  RoundBits(<<q1, q2, (v \div Centi) * HiUnit + q3>>, r3 # 0)

\* a + b and a - b of floats; the difference is a sign and a magnitude.
FAdd(a, b) == RoundBits(AddBits(a, b), FALSE)

FSub(a, b) ==
    IF FLess(a, b)
    THEN [neg |-> TRUE, mag |-> RoundBits(SubBits(b, a), FALSE)]
    ELSE [neg |-> FALSE, mag |-> RoundBits(SubBits(a, b), FALSE)]

-----------------------------------------------------------------------------
\* The progress line parser of copy_video and compress_video.

TimeToken == <<"t", "i", "m", "e", "=">>

\* re.search(r"time=(\d+:\d+:\d+.\d+)", line) tried at position i: the
\* position of the last character of group 1, or 0 when the pattern does not
\* match there. The first two \d+ must end at a colon, so each is a whole run
\* of digits. The third \d+ is greedy: it first takes its whole run, "." takes
\* the next character whatever it is, and the last \d+ takes the run after
\* it; when that fails the third \d+ gives characters back, and the match
\* succeeds inside a run of three or more digits ("." takes a digit).
MatchEnd(s, i) ==
    LET p1 == i + Len(TimeToken)
        r1 == DigitRun(s, p1)
        p2 == p1 + r1 + 1
        r2 == DigitRun(s, p2)
        p3 == p2 + r2 + 1
        r3 == DigitRun(s, p3)
        q  == p3 + r3
        r4 == DigitRun(s, q + 1)
    IN  IF ~StartsWithAt(s, i, TimeToken) THEN 0
        ELSE IF r1 = 0 \/ ~StartsWithAt(s, p1 + r1, <<":">>) THEN 0
        ELSE IF r2 = 0 \/ ~StartsWithAt(s, p2 + r2, <<":">>) THEN 0
        ELSE IF r3 = 0 THEN 0
        ELSE IF q <= Len(s) /\ r4 > 0 THEN q + r4
        ELSE IF r3 >= 3 THEN q - 1
        ELSE 0

\* time_match.group(1) of the leftmost match, or <<>> when time_match is None.
TimeMatch(s) ==
    IF \A i \in 1..Len(s) : MatchEnd(s, i) = 0 THEN <<>>
    ELSE LET i == CHOOSE j \in 1..Len(s) :
                      MatchEnd(s, j) > 0 /\ \A k \in 1..(j - 1) : MatchEnd(s, k) = 0
         IN  SubSeq(s, i + Len(TimeToken), MatchEnd(s, i))

\* h, m, s = map(float, time_str.split(':')); h * 3600 + m * 60 + s, as the
\* decimal number in 1/Centi seconds. ValueError when there are not three parts or one of them
\* is no number.
CurrentTime(time_str) ==
    LET parts == Split(time_str, ":")
    IN  IF Len(parts) # 3 THEN ValueError
        ELSE IF \E k \in 1..3 : Float(parts[k]) = ValueError THEN ValueError
        ELSE Float(parts[1]) * 3600 + Float(parts[2]) * 60 + Float(parts[3])

\* The same sum as the floats of the code give it: every float() and every
\* operation rounds. (The first two parts are runs of digits, so the products
\* are whole numbers and exact.)
current_time(time_str) ==
    LET parts == Split(time_str, ":")
    IN  FAdd(FAdd(float64(Float(parts[1]) * 3600), float64(Float(parts[2]) * 60)),
             float64(Float(parts[3])))

\* Lines ffmpeg may print (without the newline).
\* "time=00:00:05.00"
L_5s ==
    <<"t","i","m","e","=","0","0",":","0","0",":","0","5",".","0","0">>
\* "frame=1 time=00:00:03.25 bitrate=1"
L_3s ==
    <<"f","r","a","m","e","=","1"," ","t","i","m","e","=","0","0",":","0","0",":","0","3",".","2","5"," ","b","i","t","r","a","t","e","=","1">>
\* "time=00:01:00.50"
L_1m ==
    <<"t","i","m","e","=","0","0",":","0","1",":","0","0",".","5","0">>
\* "frame=1"
L_frame ==
    <<"f","r","a","m","e","=","1">>
\* "time=N/A"
L_na ==
    <<"t","i","m","e","=","N","/","A">>
\* "time=00:00:05"
L_partial ==
    <<"t","i","m","e","=","0","0",":","0","0",":","0","5">>
\* "time=00:00:05,00"
L_comma ==
    <<"t","i","m","e","=","0","0",":","0","0",":","0","5",",","0","0">>
\* "time=00:00:05:00"
L_colon ==
    <<"t","i","m","e","=","0","0",":","0","0",":","0","5",":","0","0">>
\* "time=00:00:0500"
L_nodot ==
    <<"t","i","m","e","=","0","0",":","0","0",":","0","5","0","0">>
\* "time=00:00:00.03"
L_003 ==
    <<"t","i","m","e","=","0","0",":","0","0",":","0","0",".","0","3">>
\* "time=00:00:00.29"
L_029 ==
    <<"t","i","m","e","=","0","0",":","0","0",":","0","0",".","2","9">>
NoLine    == <<>>

\* The lines a task of a batch is fed, and the lines the parser is fed.
BatchLines == {L_5s, L_comma}
ParserLines ==
    {L_5s, L_3s, L_1m, L_frame, L_na, L_partial, L_comma, L_colon, L_nodot, L_003, L_029}


\* What one pass of the loop body does with a line: "skip" (no time= in the
\* line, or no match), "raise" (the conversion raised), or "update" with the
\* new value of progress.n. tqdm's update(k) adds k to n, also when k < 0.
tqdm_update(cur, k) ==
    IF k.neg THEN RoundBits(SubBits(cur, k.mag), FALSE) ELSE FAdd(cur, k.mag)

\* The part of the loop body that does not depend on the bar, for each line
\* of the model: what happens, and current_time when it is computed.
Scan(l) ==
    IF ~Contains(l, TimeToken) THEN [do |-> "skip", time |-> Zero]
    ELSE IF TimeMatch(l) = <<>> THEN [do |-> "skip", time |-> Zero]
    ELSE IF CurrentTime(TimeMatch(l)) = ValueError THEN [do |-> "raise", time |-> Zero]
    ELSE [do |-> "update", time |-> current_time(TimeMatch(l))]

Scanned == [l \in ParserLines |-> Scan(l)]

\* Variant of the update of the bar: progress.update(current_time), which
\* adds the time of the line to what the bar shows.
HandleLineCumulative(l, cur) ==
    [do |-> Scanned[l].do,
     n  |-> IF Scanned[l].do = "update"
            THEN tqdm_update(cur, [neg |-> FALSE, mag |-> Scanned[l].time])
            ELSE cur]

HandleLine(l, cur) ==
    [do |-> Scanned[l].do,
     n  |-> IF Scanned[l].do = "update"
            THEN tqdm_update(cur, FSub(Scanned[l].time, cur))
            ELSE cur]

-----------------------------------------------------------------------------
\* Paths. A path is a directory (a sequence of names) and a file name (a
\* string); files handed to process_videos are absolute and normalised.

Lower(c) ==
    CASE c = "M" -> "m" [] c = "K" -> "k" [] c = "V" -> "v" [] c = "P" -> "p"
      [] c = "Y" -> "y" [] c = "T" -> "t" [] c = "S" -> "s"
      [] OTHER -> c

LowerStr(s) == [i \in 1..Len(s) |-> Lower(s[i])]

EndsWith(s, suffix) ==
    Len(suffix) <= Len(s) /\ StartsWithAt(s, Len(s) - Len(suffix) + 1, suffix)

extensions ==
    { <<".","m","p","4">>, <<".","a","v","i">>, <<".","m","o","v">>,
      <<".","m","k","v">>, <<".","t","s">> }

\* The walk of a tree is the sequence of its files in os.walk's order;
\* get_all_files keeps those whose lower-cased name ends in an extension.
get_all_files(tree) ==
    SelectSeq(tree, LAMBDA p : \E e \in extensions : EndsWith(LowerStr(p.name), e))

\* Index of the dot that starts the extension of name, 0 when it has none:
\* the last dot, unless only dots come before it.
ExtDot(name) ==
    IF \A i \in 1..Len(name) : name[i] # "." THEN 0
    ELSE LET d == CHOOSE i \in 1..Len(name) :
                      name[i] = "." /\ \A k \in (i + 1)..Len(name) : name[k] # "."
         IN  IF \E k \in 1..(d - 1) : name[k] # "." THEN d ELSE 0

\* os.path.splitext(p)[0]
splitext_root(p) ==
    [p EXCEPT !.name = IF ExtDot(p.name) = 0 THEN p.name
                       ELSE SubSeq(p.name, 1, ExtDot(p.name) - 1)]

basename(p) == p.name

join(dir, name) == [dir |-> dir, name |-> name]

abspath(p) == p

Suffix == <<"_", "s", ".", "m", "p", "4">>

\* Variant of the naming: a file whose name already ends in _s.mp4 keeps it.
OutputFileKeep(dir, file) ==
    IF EndsWith(abspath(file).name, Suffix)
    THEN join(dir, basename(abspath(file)))
    ELSE LET root == splitext_root(abspath(file))
         IN  join(dir, basename([root EXCEPT !.name = root.name \o Suffix]))

\* os.path.join(output_dir, os.path.basename(os.path.splitext(file)[0] + "_s.mp4"))
OutputFile(output_dir, file) ==
    LET root == splitext_root(abspath(file))
    IN  join(output_dir, basename([root EXCEPT !.name = root.name \o Suffix]))

\* The directories of the run, and the entries of the walked tree in walk
\* order; a tree of the model holds the first k of them.
output_dir == <<"G:", "out">>
input_dir == <<"G:", "out", "1">>
sub_dir == <<"G:", "out", "1", "b">>

DirListing ==
    << [dir |-> input_dir, name |-> <<"x",".","m","p","4">>],
       [dir |-> input_dir, name |-> <<"n",".","t","x","t">>],
       [dir |-> input_dir, name |-> <<"x",".","a","v","i">>],
       [dir |-> input_dir, name |-> <<"Y",".","M","K","V">>],
       [dir |-> sub_dir,   name |-> <<"x",".","m","p","4">>],
       [dir |-> sub_dir,   name |-> <<"z",".","t","s">>],
       [dir |-> sub_dir,   name |-> <<"w",".","m","o","v">>],
       [dir |-> sub_dir,   name |-> <<"v","_","s",".","m","p","4">>] >>

Tree(k) == SubSeq(DirListing, 1, Min(k, Len(DirListing)))

Trees == {Tree(k) : k \in 0..MaxEntries}

-----------------------------------------------------------------------------
\* The probes: ffprobe prints one value on its standard output.

Blank == {" ", "\n"}

\* s.strip()
RECURSIVE strip(_)
strip(s) ==
    IF s = <<>> THEN s
    ELSE IF s[1] \in Blank THEN strip(Tail(s))
    ELSE IF s[Len(s)] \in Blank THEN strip(SubSeq(s, 1, Len(s) - 1))
    ELSE s

\* get_video_bitrate: float(result.stdout.strip()) / 1000, kept in
\* 1/(Kilo * Centi) kbps so that the division is exact; ValueError when the
\* output is no number.
get_video_bitrate(stdout) == Float(strip(stdout))

\* get_video_duration: float(result.stdout.strip()), in 1/Centi seconds.
get_video_duration(stdout) == Float(strip(stdout))

\* Variant of the threshold test: bitrate < 1000.
UseCopyBelow(b) == b < Threshold * Kilo * Centi

\* bitrate <= 1000
UseCopy(b) == b <= Threshold * Kilo * Centi

\* Variant of the choice of the encoder: the two names exchanged.
EncoderSwapped(gpu) == IF gpu THEN "libx264" ELSE "h264_nvenc"

\* encoder = "h264_nvenc" if use_gpu else "libx264"
Encoder(gpu) == IF gpu THEN "h264_nvenc" ELSE "libx264"

Out_na      == <<"N", "/", "A", "\n">>
Out_empty   == <<>>
Out_500k    == <<"5","0","0","0","0","0","\n">>
Out_999999  == <<"9","9","9","9","9","9","\n">>
Out_1000k   == <<"1","0","0","0","0","0","0","\n">>
Out_1000001 == <<"1","0","0","0","0","0","1","\n">>
Out_5000k   == <<"5","0","0","0","0","0","0","\n">>
Out_12s     == <<"1","2",".","5","\n">>

BatchBitrates == {Out_na, Out_1000k, Out_1000001}
AllBitrates == {Out_na, Out_empty, Out_500k, Out_999999, Out_1000k, Out_1000001, Out_5000k}
Durations == {Out_na, Out_12s}
ExitCodes == {0, 1}

-----------------------------------------------------------------------------
\* The batch.

Tasks == 1..Len(files)

Running == {"bitrate", "duration", "loop", "update"}
Terminal == {"done", "raised"}

\* Tasks a worker thread is executing.
Active == {t \in Tasks : pc[t] \in Running}

InitWith(trees, gpus) ==
    /\ fs = [input |-> "ok", output |-> "exists"]
    /\ files \in {get_all_files(tree) : tree \in trees}
    /\ use_gpu \in gpus
    /\ mainPc = "running"
    /\ futures = 0
    /\ collected = {}
    /\ errors = {}
    /\ output_file = [t \in Tasks |-> <<>>]
    /\ pc = [t \in Tasks |-> "new"]
    /\ mode = [t \in Tasks |-> "none"]
    /\ bitrate = [t \in Tasks |-> -1]
    /\ cmd = [t \in Tasks |-> "none"]
    /\ process = [t \in Tasks |-> "none"]
    /\ returncode = [t \in Tasks |-> -1]
    /\ error = [t \in Tasks |-> "none"]
    /\ n = [t \in Tasks |-> Zero]
    /\ line = [t \in Tasks |-> NoLine]
    /\ pbar_n = 0
    /\ reg = [t \in Tasks |-> 0]

Init == InitWith(Trees, BOOLEAN)

\* One pass of the submitting loop of process_videos.
Submit ==
    /\ mainPc = "running"
    /\ futures < Len(files)
    /\ futures' = futures + 1
    /\ output_file' = [output_file EXCEPT
                         ![futures + 1] = OutputFile(output_dir, files[futures + 1])]
    /\ pc' = [pc EXCEPT ![futures + 1] = "queued"]
    /\ UNCHANGED <<fs, files, use_gpu, mainPc, collected, errors, mode, bitrate, cmd,
                   process, returncode, error, n, line, pbar_n, reg>>

\* Variants of the pool: one whose threads are lost when their task ends, and
\* one without a limit.
WorkerNeverFreed ==
    Cardinality({t \in Tasks : pc[t] \in Running \cup Terminal}) < max_workers

WorkerAlwaysFree == TRUE

\* A worker of the pool takes the oldest queued work item, when there are
\* fewer than max_workers threads busy.
WorkerFree == Cardinality(Active) < max_workers

Start(t) ==
    /\ pc[t] = "queued"
    /\ \A u \in 1..(t - 1) : pc[u] # "queued"
    /\ WorkerFree
    /\ pc' = [pc EXCEPT ![t] = "bitrate"]
    /\ UNCHANGED <<fs, files, output_file, use_gpu, mainPc, futures, collected, errors,
                   mode, bitrate, cmd, process, returncode, error, n, line, pbar_n, reg>>

\* copy_or_compress_video up to the call of get_video_duration: the bitrate
\* probe returns, the branch is taken and ffmpeg is started.
BitrateProbe(t, outs) ==
    /\ pc[t] = "bitrate"
    /\ \E out \in outs :
         LET b == get_video_bitrate(out)
         IN  IF b = ValueError
             THEN /\ pc' = [pc EXCEPT ![t] = "raised"]
                  /\ error' = [error EXCEPT ![t] = "bitrate"]
                  /\ UNCHANGED <<bitrate, mode, cmd, process>>
             ELSE /\ bitrate' = [bitrate EXCEPT ![t] = b]
                  /\ mode' = [mode EXCEPT ![t] = IF UseCopy(b) THEN "copy" ELSE "compress"]
                  /\ cmd' = [cmd EXCEPT ![t] = IF UseCopy(b) THEN "copy" ELSE Encoder(use_gpu)]
                  /\ process' = [process EXCEPT ![t] = "running"]
                  /\ pc' = [pc EXCEPT ![t] = "duration"]
                  /\ UNCHANGED error
    /\ UNCHANGED <<fs, files, output_file, use_gpu, mainPc, futures, collected, errors,
                   returncode, n, line, pbar_n, reg>>

\* Variant of the duration probe: a failed probe sends the task back to the
\* bitrate probe.
DurationProbeAgain(t, outs) ==
    /\ pc[t] = "duration"
    /\ \E out \in outs :
         IF get_video_duration(out) = ValueError
         THEN pc' = [pc EXCEPT ![t] = "bitrate"]
         ELSE pc' = [pc EXCEPT ![t] = "loop"]
    /\ UNCHANGED <<fs, files, output_file, use_gpu, mainPc, futures, collected, errors,
                   mode, bitrate, cmd, process, returncode, error, n, line, pbar_n, reg>>

\* get_video_duration returns, after ffmpeg was started: the bar of the file
\* is made, or the exception leaves the function.
DurationProbe(t, outs) ==
    /\ pc[t] = "duration"
    /\ \E out \in outs :
         IF get_video_duration(out) = ValueError
         THEN /\ pc' = [pc EXCEPT ![t] = "raised"]
              /\ error' = [error EXCEPT ![t] = "duration"]
         ELSE /\ pc' = [pc EXCEPT ![t] = "loop"]
              /\ UNCHANGED error
    /\ UNCHANGED <<fs, files, output_file, use_gpu, mainPc, futures, collected, errors,
                   mode, bitrate, cmd, process, returncode, n, line, pbar_n, reg>>

\* One pass of the reading loop with a line of ffmpeg's stderr.
ReadLine(t, lines) ==
    /\ pc[t] = "loop"
    /\ \E l \in lines :
         LET r == HandleLine(l, n[t])
         IN  /\ line' = [line EXCEPT ![t] = l]
             /\ n' = [n EXCEPT ![t] = r.n]
             /\ IF r.do = "raise"
                THEN /\ pc' = [pc EXCEPT ![t] = "raised"]
                     /\ error' = [error EXCEPT ![t] = "line"]
                ELSE UNCHANGED <<pc, error>>
    /\ UNCHANGED <<fs, files, output_file, use_gpu, mainPc, futures, collected, errors,
                   mode, bitrate, cmd, process, returncode, pbar_n, reg>>

\* Variant of the end of the loop: pbar.update(1) is reached without
\* communicate(), so the child is not waited for.
FinishNoWait(t, codes) ==
    /\ pc[t] = "loop"
    /\ n' = [n EXCEPT ![t] = Zero]
    /\ line' = [line EXCEPT ![t] = NoLine]
    /\ reg' = [reg EXCEPT ![t] = pbar_n]
    /\ pc' = [pc EXCEPT ![t] = "update"]
    /\ UNCHANGED <<fs, files, output_file, use_gpu, mainPc, futures, collected, errors,
                   mode, bitrate, cmd, process, returncode, error, pbar_n>>

\* readline returns "" because ffmpeg has closed its stderr: the loop ends,
\* the bar is closed, communicate() waits for the child and stores its exit
\* status, and pbar.update(1) reads pbar.n. (tqdm's update is self.n += n,
\* a read and a write of the attribute with no lock held; the threads of the
\* pool share pbar.) Nothing reads progress or line after the loop, so the
\* model drops their values here.
Finish(t, codes) ==
    /\ pc[t] = "loop"
    /\ \E rc \in codes : returncode' = [returncode EXCEPT ![t] = rc]
    /\ process' = [process EXCEPT ![t] = "exited"]
    /\ n' = [n EXCEPT ![t] = Zero]
    /\ line' = [line EXCEPT ![t] = NoLine]
    /\ reg' = [reg EXCEPT ![t] = pbar_n]
    /\ pc' = [pc EXCEPT ![t] = "update"]
    /\ UNCHANGED <<fs, files, output_file, use_gpu, mainPc, futures, collected, errors,
                   mode, bitrate, cmd, error, pbar_n>>

\* pbar.update(1) stores the value it read plus one in pbar.n, and the task
\* function returns (the value read is gone with the call).
Update(t) ==
    /\ pc[t] = "update"
    /\ pbar_n' = reg[t] + 1
    /\ reg' = [reg EXCEPT ![t] = 0]
    /\ pc' = [pc EXCEPT ![t] = "done"]
    /\ UNCHANGED <<fs, files, output_file, use_gpu, mainPc, futures, collected, errors,
                   mode, bitrate, cmd, process, returncode, error, n, line>>

\* Variant of the loop without its try/except: the exception of a future
\* leaves process_videos.
CollectUncaught(t) ==
    /\ mainPc = "running"
    /\ futures = Len(files)
    /\ t \notin collected
    /\ pc[t] \in Terminal
    /\ collected' = collected \cup {t}
    /\ mainPc' = IF error[t] # "none" THEN "raised" ELSE mainPc
    /\ UNCHANGED <<fs, files, output_file, use_gpu, futures, errors, pc, mode, bitrate,
                   cmd, process, returncode, error, n, line, pbar_n, reg>>

\* One pass of the as_completed loop: a finished future that the loop has not
\* had yet is yielded; future.result() returns, or raises the exception of
\* the task, which is caught and printed.
Collect(t) ==
    /\ mainPc = "running"
    /\ futures = Len(files)
    /\ t \notin collected
    /\ pc[t] \in Terminal
    /\ collected' = collected \cup {t}
    /\ errors' = IF error[t] # "none" THEN errors \cup {t} ELSE errors
    /\ UNCHANGED <<fs, files, output_file, use_gpu, mainPc, futures, pc, mode, bitrate,
                   cmd, process, returncode, error, n, line, pbar_n, reg>>

\* Variant of the return: process_videos returns when every file is submitted,
\* without the as_completed loop and the wait of the pool's with-block.
ReturnEarly ==
    /\ mainPc = "running"
    /\ futures = Len(files)
    /\ mainPc' = "returned"
    /\ UNCHANGED <<fs, files, output_file, use_gpu, futures, collected, errors, pc, mode,
                   bitrate, cmd, process, returncode, error, n, line, pbar_n, reg>>

\* The loop is over: both with-blocks are left and process_videos returns.
Return ==
    /\ mainPc = "running"
    /\ futures = Len(files)
    /\ collected = Tasks
    /\ mainPc' = "returned"
    /\ UNCHANGED <<fs, files, output_file, use_gpu, futures, collected, errors, pc, mode,
                   bitrate, cmd, process, returncode, error, n, line, pbar_n, reg>>

NextWith(bitrates, durations, lines, codes) ==
    \/ Submit
    \/ \E t \in Tasks : Start(t)
    \/ \E t \in Tasks : BitrateProbe(t, bitrates)
    \/ \E t \in Tasks : DurationProbe(t, durations)
    \/ \E t \in Tasks : ReadLine(t, lines)
    \/ \E t \in Tasks : Finish(t, codes)
    \/ \E t \in Tasks : Update(t)
    \/ \E t \in Tasks : Collect(t)
    \/ Return

\* A batch of up to MaxEntries directory entries, every kind of probe answer
\* and exit status, one good and one bad progress line.
Next == NextWith(BatchBitrates, Durations, BatchLines, ExitCodes)

Spec == Init /\ [][Next]_vars

\* One file, every line and every probe answer of the model.
InitParser == InitWith({Tree(1)}, BOOLEAN)

NextParser == NextWith(AllBitrates, Durations, ParserLines, ExitCodes)

SpecParser == InitParser /\ [][NextParser]_vars

\* A batch of more files than the pool has workers; the bitrate probe may
\* fail, the encoders succeed.
PoolTree == Tree(max_workers + MaxQueued + 1)

InitPool == InitWith({PoolTree}, {FALSE})

NextPool == NextWith({Out_na, Out_1000k}, {Out_12s}, {L_5s}, {0})

SpecPool == InitPool /\ [][NextPool]_vars

\* The steps that need nothing but a thread being scheduled or a probe or an
\* encoder coming to its end. ffmpeg is not obliged to print another line, so
\* ReadLine is not among them.
TaskStep(t) ==
    \/ Start(t)
    \/ BitrateProbe(t, {Out_na, Out_1000k})
    \/ DurationProbe(t, {Out_12s})
    \/ Finish(t, {0})
    \/ Update(t)

MainStep == Submit \/ (\E t \in Tasks : Collect(t)) \/ Return

Progress == MainStep \/ \E t \in Tasks : TaskStep(t)

\* The pool's batch with a fair scheduler and external processes that end:
\* a step of Progress that stays possible is taken.
FairPool == SpecPool /\ WF_vars(Progress)

\* process_videos called with one file of any directory and name: in
\* output_dir or below it, named like an output, with upper-case letters,
\* with two dots, or with nothing before its only dot.
PathEntries ==
    { [dir |-> output_dir, name |-> <<"x",".","m","p","4">>],
      [dir |-> output_dir, name |-> <<"x","_","s",".","m","p","4">>],
      [dir |-> output_dir, name |-> <<"x","_","s",".","M","P","4">>],
      [dir |-> output_dir, name |-> <<"_","s",".","m","p","4">>],
      [dir |-> output_dir, name |-> <<".","m","p","4">>],
      [dir |-> output_dir, name |-> <<"x",".","m","p","4","_","s",".","m","p","4">>],
      [dir |-> input_dir,  name |-> <<"x","_","s",".","m","p","4">>],
      [dir |-> input_dir,  name |-> <<"a",".","b",".","t","s">>],
      [dir |-> sub_dir,    name |-> <<"x",".","_","s",".","m","p","4">>] }

InitPaths == InitWith({<<p>> : p \in PathEntries}, {FALSE})

SpecPaths == InitPaths /\ [][Next]_vars

-----------------------------------------------------------------------------
\* The main block: make output_dir, ask ffmpeg for cuda, walk input_dir, and
\* call process_videos.

\* What a scan of input_dir can meet: the directory and its subdirectory are
\* listed ("ok"), the directory is not there ("missing") or may not be read
\* ("unreadable"), or its subdirectory may not be read ("sub_unreadable").
InputStates == {"ok", "missing", "unreadable", "sub_unreadable"}

\* output_dir is there ("exists"), is not and can be made ("absent"), or is
\* not and cannot be made ("denied").
OutputStates == {"exists", "absent", "denied"}

\* os.walk(directory): the entries of the directories it could list, in walk
\* order. os.walk ignores the OSError of a scandir call (onerror is None).
os_walk(tree, state) ==
    CASE state = "ok" -> tree
      [] state = "sub_unreadable" -> SelectSeq(tree, LAMBDA p : p.dir = input_dir)
      [] OTHER -> <<>>

\* ffmpeg -hwaccels prints the methods it was built with; FileNotFoundError
\* stands for subprocess.run not finding ffmpeg.
Hw_cuda == <<"v","d","p","a","u","\n","c","u","d","a","\n">>
Hw_none == <<"v","d","p","a","u","\n">>
FileNotFoundError == <<"F","i","l","e","N","o","t","F","o","u","n","d">>
HwAnswers == {Hw_cuda, Hw_none, FileNotFoundError}

\* "cuda" in result.stdout.decode().lower()
check_gpu_support(stdout) == Contains(LowerStr(stdout), <<"c","u","d","a">>)

\* if not os.path.exists(output_dir): os.makedirs(output_dir)
MakeDirs ==
    /\ mainPc = "start"
    /\ fs' = [fs EXCEPT !.output = IF @ = "absent" THEN "exists" ELSE @]
    /\ mainPc' = IF fs.output = "denied" THEN "aborted" ELSE "gpu"
    /\ UNCHANGED <<files, output_file, use_gpu, futures, collected, errors, pc,
                   mode, bitrate, cmd, process, returncode, error, n, line, pbar_n,
                   reg>>

\* use_gpu = check_gpu_support()
CheckGpu ==
    /\ mainPc = "gpu"
    /\ \E out \in HwAnswers :
         IF out = FileNotFoundError
         THEN mainPc' = "aborted" /\ UNCHANGED use_gpu
         ELSE mainPc' = "walk" /\ use_gpu' = check_gpu_support(out)
    /\ UNCHANGED <<fs, files, output_file, futures, collected, errors, pc, mode,
                   bitrate, cmd, process, returncode, error, n, line, pbar_n, reg>>

\* files = get_all_files(input_dir), and the entry into process_videos with
\* no task yet.
Discover(trees) ==
    /\ mainPc = "walk"
    /\ \E tree \in trees : files' = get_all_files(os_walk(tree, fs.input))
    /\ mainPc' = "running"
    /\ output_file' = [t \in 1..Len(files') |-> <<>>]
    /\ pc' = [t \in 1..Len(files') |-> "new"]
    /\ mode' = [t \in 1..Len(files') |-> "none"]
    /\ bitrate' = [t \in 1..Len(files') |-> -1]
    /\ cmd' = [t \in 1..Len(files') |-> "none"]
    /\ process' = [t \in 1..Len(files') |-> "none"]
    /\ returncode' = [t \in 1..Len(files') |-> -1]
    /\ error' = [t \in 1..Len(files') |-> "none"]
    /\ n' = [t \in 1..Len(files') |-> Zero]
    /\ line' = [t \in 1..Len(files') |-> NoLine]
    /\ reg' = [t \in 1..Len(files') |-> 0]
    /\ UNCHANGED <<fs, use_gpu, futures, collected, errors, pbar_n>>

\* The start of the script: nothing is discovered yet.
InitMain ==
    /\ fs \in [input : InputStates, output : OutputStates]
    /\ files = <<>>
    /\ use_gpu = FALSE
    /\ mainPc = "start"
    /\ futures = 0
    /\ collected = {}
    /\ errors = {}
    /\ output_file = <<>>
    /\ pc = <<>>
    /\ mode = <<>>
    /\ bitrate = <<>>
    /\ cmd = <<>>
    /\ process = <<>>
    /\ returncode = <<>>
    /\ error = <<>>
    /\ n = <<>>
    /\ line = <<>>
    /\ pbar_n = 0
    /\ reg = <<>>

\* The trees the script may find: an empty directory, and one with a video in
\* input_dir and a video in its subdirectory.
MainTrees == {<<>>, <<DirListing[1], DirListing[5]>>}

NextMain ==
    \/ MakeDirs
    \/ CheckGpu
    \/ Discover(MainTrees)
    \/ Next

SpecMain == InitMain /\ [][NextMain]_vars

-----------------------------------------------------------------------------
\* Properties.

Done == {t \in Tasks : pc[t] = "done"}
Failed == {t \in Tasks : pc[t] = "raised"}

\* C1: every task adds one to the count of finished files when it ends,
\* whether it succeeded or failed, so the count is the number of files when
\* the batch has ended.
C1_CountIsNumberOfFiles ==
    mainPc = "returned" => pbar_n = Len(files)

\* C2: no increment of the count of finished files is lost: when all tasks
\* have ended the count is the number of increments performed.
C2_NoLostIncrement ==
    mainPc = "returned" => pbar_n = Cardinality(Done)

\* C3: with a fair scheduler and probes and encoders that end, every task of
\* a batch larger than the pool ends (done or failed) and process_videos
\* returns.
C3_EveryTaskEnds ==
    <>(mainPc = "returned" /\ \A t \in Tasks : pc[t] \in Terminal)

C3_Witness ==
    /\ mainPc = "returned"
    /\ Len(files) > 4
    /\ pc[Len(files)] = "done"
    /\ Failed # {}

\* C4: the failure of a task stays in the task: process_videos never ends by
\* an exception, and when it returns every file was run to its end, failed
\* exactly where its own task raised.
C4_FailuresStayInTheTask ==
    /\ mainPc # "raised"
    /\ mainPc = "returned" =>
         /\ \A t \in Tasks : pc[t] \in Terminal
         /\ \A t \in Tasks : pc[t] = "raised" <=> error[t] # "none"
         /\ errors = Failed

C4_Witness ==
    /\ mainPc = "returned"
    /\ Failed # {}
    /\ Done # {}

\* C5: a task whose encoder exits with a status other than 0 ends failed, not
\* done.
C5_NonZeroExitFails ==
    \A t \in Tasks : pc[t] = "done" => returncode[t] = 0

\* C6: no two tasks of a batch are given the same output path.
C6_OutputsDiffer ==
    \A t, u \in Tasks :
        (t # u /\ pc[t] # "new" /\ pc[u] # "new") => output_file[t] # output_file[u]

\* C7: at most 4 tasks are past the queue and not yet ended.
C7_AtMostFourRun ==
    Cardinality({t \in Tasks : pc[t] \notin {"new", "queued", "done", "raised"}}) <= 4

C7_Witness ==
    /\ Cardinality({t \in Tasks : pc[t] \notin {"new", "queued", "done", "raised"}}) = 4
    /\ \E t \in Tasks : pc[t] = "queued"

\* C8: the elapsed time a task reports never goes down while its loop runs.
C8_ElapsedNeverDecreases ==
    [][\A t \in Tasks : (pc[t] = "loop" /\ pc'[t] = "loop") => ~FLess(n'[t], n[t])]_vars

\* A line is well formed when it holds time= followed by digits, a colon,
\* digits, a colon, digits, a point and digits.
WellFormedAt(l, i) ==
    LET p1 == i + 5
        r1 == DigitRun(l, p1)
        p2 == p1 + r1 + 1
        r2 == DigitRun(l, p2)
        p3 == p2 + r2 + 1
        r3 == DigitRun(l, p3)
    IN  /\ StartsWithAt(l, i, <<"t", "i", "m", "e", "=">>)
        /\ r1 > 0 /\ StartsWithAt(l, p1 + r1, <<":">>)
        /\ r2 > 0 /\ StartsWithAt(l, p2 + r2, <<":">>)
        /\ r3 > 0 /\ StartsWithAt(l, p3 + r3, <<".">>)
        /\ DigitRun(l, p3 + r3 + 1) > 0

WellFormed(l) == \E i \in 1..Len(l) : WellFormedAt(l, i)

Malformed == {l \in ParserLines : ~WellFormed(l)}

\* C9: a malformed line read by the loop changes nothing: the elapsed time
\* stays and the task stays in its loop.
C9_MalformedLineIsSkipped ==
    [][\A t \in Tasks :
         (pc[t] = "loop" /\ line'[t] # line[t] /\ line'[t] \in Malformed)
            => (pc'[t] = "loop" /\ n'[t] = n[t])]_vars

\* C10: a task takes the copy path when its bitrate is at most 1000 kbps and
\* the compress path when it is above; it takes one path, never both. (The
\* bitrate is kept in 1/100000 kbps.)
C10_ThresholdDecidesThePath ==
    \A t \in Tasks :
        /\ mode[t] = "none" <=> pc[t] \in {"new", "queued", "bitrate"} \/ error[t] = "bitrate"
        /\ mode[t] = "copy" => (bitrate[t] <= 1000 * 100000 /\ cmd[t] = "copy")
        /\ mode[t] = "compress" =>
             (bitrate[t] > 1000 * 100000 /\ cmd[t] \in {"h264_nvenc", "libx264"})

C10_Witness ==
    \E t \in Tasks : bitrate[t] = 1000 * 100000 /\ mode[t] = "copy" /\ pc[t] = "done"

\* The state of a task in the terms of the state machine: Queued while its
\* work item waits in the pool's queue, Probing while get_video_bitrate runs,
\* CopyRunning or CompressRunning from the start of ffmpeg to the return of
\* copy_video or compress_video, Done when the task function returned and
\* Failed when it raised.
TaskState(t) ==
    CASE pc[t] = "new" -> "NotSubmitted"
      [] pc[t] = "queued" -> "Queued"
      [] pc[t] = "bitrate" -> "Probing"
      [] pc[t] \in {"duration", "loop", "update"} /\ mode[t] = "copy" -> "CopyRunning"
      [] pc[t] \in {"duration", "loop", "update"} /\ mode[t] = "compress" -> "CompressRunning"
      [] pc[t] = "done" -> "Done"
      [] pc[t] = "raised" -> "Failed"
      [] OTHER -> "Undefined"

\* The steps of the state machine.
Forward ==
    { <<"NotSubmitted", "Queued">>, <<"Queued", "Probing">>,
      <<"Probing", "CopyRunning">>, <<"Probing", "CompressRunning">>,
      <<"Probing", "Failed">>,
      <<"CopyRunning", "Done">>, <<"CopyRunning", "Failed">>,
      <<"CompressRunning", "Done">>, <<"CompressRunning", "Failed">> }

\* C11: a task changes its state only by a step of the state machine Queued,
\* Probing, CopyRunning or CompressRunning, Done or Failed: it never goes
\* back and never leaves Done or Failed; and its ffmpeg is started only in
\* the step that ends the bitrate probe with the mode decided.
C11_TasksMoveForward ==
    [][\A t \in Tasks :
         /\ TaskState(t)' # TaskState(t) => <<TaskState(t), TaskState(t)'>> \in Forward
         /\ TaskState(t) # "Undefined"
         /\ (process[t] = "none" /\ process'[t] # "none") =>
              /\ TaskState(t) = "Probing"
              /\ bitrate'[t] >= 0
              /\ mode'[t] \in {"copy", "compress"}
              /\ TaskState(t)' = (IF mode'[t] = "copy" THEN "CopyRunning"
                                                       ELSE "CompressRunning")]_vars

C11_Witness ==
    \E t, u \in Tasks :
        /\ TaskState(t) = "Done" /\ mode[t] = "compress"
        /\ TaskState(u) = "Failed" /\ error[u] = "duration"

\* C12: process_videos has returned only when every task of the batch is Done
\* or Failed: none is still waiting, probing or running.
C12_ReturnsWhenAllEnded ==
    mainPc = "returned" =>
        \A t \in Tasks : TaskState(t) \in {"Done", "Failed"}

C12_Witness ==
    /\ mainPc = "returned"
    /\ Len(files) = 2
    /\ TaskState(1) = "Failed"
    /\ TaskState(2) = "Done"

\* C13: an error of the directory walk or of the making of output_dir is
\* fatal: process_videos is entered only when input_dir and its subdirectory
\* were listed and output_dir is there, and after an error the main block is
\* aborted with no task submitted.
C13_DiscoveryErrorIsFatal ==
    mainPc \in {"running", "returned"} =>
        (fs.input = "ok" /\ fs.output = "exists")

\* C14: the ffmpeg a task has started names the hardware encoder exactly when
\* the task compresses and use_gpu is true, the software encoder exactly when
\* it compresses and use_gpu is false, and no encoder (a stream copy) when it
\* copies, whatever use_gpu is; a file of 5000 kbps with use_gpu true is
\* compressed with the hardware encoder. (The bitrate is kept in 1/100000
\* kbps.)
C14_EncoderFollowsModeAndGpu ==
    \A t \in Tasks :
        process[t] # "none" =>
            /\ cmd[t] = "h264_nvenc" <=> (mode[t] = "compress" /\ use_gpu)
            /\ cmd[t] = "libx264" <=> (mode[t] = "compress" /\ ~use_gpu)
            /\ cmd[t] = "copy" <=> mode[t] = "copy"
            /\ (bitrate[t] = 5000 * 100000 /\ use_gpu) =>
                 (mode[t] = "compress" /\ cmd[t] = "h264_nvenc")

C14_Witness ==
    \E t \in Tasks :
        /\ bitrate[t] = 5000 * 100000
        /\ use_gpu
        /\ process[t] = "exited"
        /\ cmd[t] = "h264_nvenc"

\* name is stem followed by ext, and ext is the extension of name: nothing,
\* when no dot of name has another character before it, and otherwise what
\* starts at the last dot.
ExtensionSplit(name, stem, ext) ==
    /\ name = stem \o ext
    /\ IF ext = <<>>
       THEN \A i \in 1..Len(name) :
                name[i] = "." => \A k \in 1..(i - 1) : name[k] = "."
       ELSE /\ ext[1] = "."
            /\ \A i \in 2..Len(ext) : ext[i] # "."
            /\ \E k \in 1..Len(stem) : stem[k] # "."

\* C15: the output path a task is submitted with is output_dir joined with
\* the name of its input file without the extension, followed by _s.mp4, and
\* it is not the path of the input file, also when the input file is in
\* output_dir or its name ends in _s.mp4.
C15_OutputPathIsDerivedAndNew ==
    \A t \in Tasks :
        pc[t] # "new" =>
            /\ output_file[t].dir = <<"G:", "out">>
            /\ \E k \in 0..Len(files[t].name) :
                 /\ ExtensionSplit(files[t].name,
                                   SubSeq(files[t].name, 1, k),
                                   SubSeq(files[t].name, k + 1, Len(files[t].name)))
                 /\ output_file[t].name =
                        SubSeq(files[t].name, 1, k) \o <<"_","s",".","m","p","4">>
            /\ output_file[t] # files[t]

C15_Witness ==
    \E t \in Tasks :
        /\ pc[t] = "done"
        /\ files[t].dir = <<"G:", "out">>
        /\ files[t].name = <<"x","_","s",".","m","p","4">>
        /\ output_file[t].name = <<"x","_","s","_","s",".","m","p","4">>

\* C16: a task that is Done or Failed has no ffmpeg child that was started
\* and not waited for to its end; in particular not after a failed duration
\* probe.
C16_NoEncoderOutlivesItsTask ==
    \A t \in Tasks :
        TaskState(t) \in {"Done", "Failed"} => process[t] # "running"

\* Tasks whose ffmpeg child has ended and was waited for.
Exited == {t \in Tasks : process[t] = "exited"}

\* C17: a task adds to the count of finished files only after its ffmpeg has
\* closed its stderr and has ended: the count is never more than the number
\* of tasks whose child has ended, and a task in or past pbar.update(1) has a
\* child that has ended.
C17_CountedOnlyAfterExit ==
    /\ pbar_n <= Cardinality(Exited)
    /\ \A t \in Tasks : pc[t] \in {"update", "done"} => t \in Exited

C17_Witness ==
    /\ pbar_n = 1
    /\ Cardinality(Exited) = 2
    /\ \E t \in Tasks : pc[t] = "update"

\* The timestamp h * 3600 + m * 60 + s of the first well-formed marker of a
\* line, as a float.
Timestamp(l) ==
    LET i  == CHOOSE j \in 1..Len(l) :
                  WellFormedAt(l, j) /\ \A k \in 1..(j - 1) : ~WellFormedAt(l, k)
        p1 == i + 5
        r1 == DigitRun(l, p1)
        p2 == p1 + r1 + 1
        r2 == DigitRun(l, p2)
        p3 == p2 + r2 + 1
        r3 == DigitRun(l, p3)
        p4 == p3 + r3 + 1
        h  == DigitsValue(SubSeq(l, p1, p1 + r1 - 1))
        m  == DigitsValue(SubSeq(l, p2, p2 + r2 - 1))
        sec == DigitsValue(SubSeq(l, p3, p3 + r3 - 1))
        ff == DigitsValue(SubSeq(l, p4, p4 + 1))
    IN  FAdd(FAdd(float64(h * 3600 * 100), float64(m * 60 * 100)),
             float64(sec * 100 + ff))

\* The lines of the model with a well-formed marker, and their timestamps.
Timestamps == [l \in {k \in ParserLines : WellFormed(k)} |-> Timestamp(l)]

\* A line without a marker: no time= with a digit after it.
NoMarker(l) ==
    \A i \in 1..Len(l) :
        ~(StartsWithAt(l, i, <<"t", "i", "m", "e", "=">>) /\ DigitRun(l, i + 5) > 0)

\* |a - b|
Distance(a, b) == IF FLess(a, b) THEN SubBits(b, a) ELSE SubBits(a, b)

====
